---- MODULE Spec2Model ----
(***************************************************************************)
(* Model of gpp_test_utils.hpp (optimal_learning/EPI):                     *)
(*   - MockExpectedImprovementEnvironment: the randomized fixture whose    *)
(*     Initialize() resizes and refills four buffers;                      *)
(*   - PingableMatrixInputVectorOutputInterface and PingDerivative(): the  *)
(*     finite-difference gradient checker.                                 *)
(* Real numbers are fixed-point integers.                                  *)
(***************************************************************************)
EXTENDS Integers, Sequences, FiniteSets, TLC

VARIABLES
    \* MockExpectedImprovementEnvironment
    dim, num_to_sample, num_sampled,
    points_to_sample_, points_sampled_, points_sampled_value_, current_point_,
    uniform_generator_,     \* the fixture's own generator (engine state)
    supplied_generator,     \* a generator owned by the caller, passed by pointer
    hist,                   \* history of the Initialize calls (observation only)
    \* PingDerivative, its arguments and the implementer it is given
    evaluator,              \* the implementer: its function, its shape, its flaws
    evaluator_state,        \* what EvaluateAndStoreAnalyticGradient last stored
    points,                 \* the input matrix X
    epsilon,                \* <<h1, h2>>
    rate_tolerance_fine, rate_tolerance_relaxed,
    pc, row, col, out,      \* position of PingDerivative
    grad_fd,                \* finite-difference estimates at (row, col)
    total_errors, returned,
    judged,                 \* per entry: what was read, computed and decided
    eval_inputs,            \* matrices last passed to EvaluateFunction
    caller_arg              \* matrix the caller last passed to EvaluateAndStore...

env_vars == <<dim, num_to_sample, num_sampled, points_to_sample_, points_sampled_,
              points_sampled_value_, current_point_, uniform_generator_,
              supplied_generator, hist>>
ping_vars == <<evaluator, evaluator_state, points, epsilon, rate_tolerance_fine,
               rate_tolerance_relaxed, pc, row, col, out, grad_fd, total_errors,
               returned, judged, eval_inputs, caller_arg>>
vars == <<env_vars, ping_vars>>

-----------------------------------------------------------------------------
(* Bounds of the model *)

MaxDim == 2         \* dim ranges over 1..MaxDim
MaxCalls == 2       \* number of Initialize calls in a behaviour
MaxRows == 2        \* num_rows of an implementer ranges over 1..MaxRows
MaxCols == 2        \* num_cols ranges over 1..MaxCols
MaxOutputs == 1     \* GetOutputSize() ranges over 1..MaxOutputs

(* Program constants *)

kDefaultSeed == 314
range_min == -5
range_max == 5
DefaultPointsCapacity == 20 * 4
DefaultValuesCapacity == 20
DefaultPointCapacity == 4

-----------------------------------------------------------------------------
(* The random engine behind UniformRandomGenerator (gpp_random.hpp) and      *)
(* boost::uniform_real.  The engine is a deterministic state machine; here a *)
(* full-period linear congruential generator over 0..EngineMod-1.            *)

EngineMod == 16

SeedEngine(seed) == seed % EngineMod

EngineStep(s) == (5 * s + 3) % EngineMod

\* The engine state after n steps from state s: a run of k steps is a run of
\* k \div 2 steps followed by a run of the remaining steps.
EngineNth(s, n) ==
    LET after[p \in (0..(EngineMod - 1)) \X (0..n)] ==
            IF p[2] = 0 THEN p[1]
            ELSE IF p[2] = 1 THEN EngineStep(p[1])
            ELSE after[<<after[<<p[1], p[2] \div 2>>], p[2] - (p[2] \div 2)>>]
    IN  IF n <= 0 THEN s ELSE after[<<s, n>>]

\* A mutant of the distribution: the offset range_min is forgotten.
uniform_double_unshifted(s) == (s * (range_max - range_min)) \div (EngineMod - 1)

\* uniform_double_(range_min, range_max) applied to the engine output s
uniform_double_(s) == range_min + (s * (range_max - range_min)) \div (EngineMod - 1)

-----------------------------------------------------------------------------
(* Buffers.  An element is the stored double together with where it came     *)
(* from: which generator drew it and at which tick of the global draw clock. *)

ZeroElement == [val |-> 0, gen |-> "none", t |-> 0]

\* std::vector<double>(n): n value-initialized elements
NewVector(n) == [i \in 1..n |-> ZeroElement]

\* std::vector<double>::resize(n)
resize(v, n) ==
    IF n <= Len(v) THEN SubSeq(v, 1, n)
    ELSE v \o [i \in 1..(n - Len(v)) |-> ZeroElement]

\* The generators reachable through a UniformRandomGenerator pointer.
Generators == {"own", "supplied"}

\* A mutant of the dereference: the pointer argument is ignored and the
\* fixture's own generator is used.
EngineOfOwnAlways(g, own, supplied) == own

\* uniform_generator->engine
EngineOf(g, own, supplied) == IF g = "own" THEN own ELSE supplied

\* The engine states after 1, 2, ..., n steps from state s.
EngineRun(s, n) == [i \in 1..n |-> EngineNth(s, i)]

\* A mutant of the fill loop: the loop stops one element early.
FillLoopShort(buf, n, g, s, t) ==
    LET run == EngineRun(s, n - 1)
    IN  [buf |-> [i \in 1..Len(buf) |->
                    IF i <= Len(run)
                    THEN [val |-> uniform_double_(run[i]), gen |-> g, t |-> t + i]
                    ELSE buf[i]],
         s |-> IF Len(run) = 0 THEN s ELSE run[Len(run)],
         t |-> t + Len(run)]

\* for (int i = 0; i < n; ++i) buf[i] = uniform_double_(uniform_generator->engine);
\* s is the engine state and t the draw clock before the loop; the result
\* holds the buffer, the engine state and the clock after it.
FillLoop(buf, n, g, s, t) ==
    LET run == EngineRun(s, n)
    IN  [buf |-> [i \in 1..Len(buf) |->
                    IF i <= Len(run)
                    THEN [val |-> uniform_double_(run[i]), gen |-> g, t |-> t + i]
                    ELSE buf[i]],
         s |-> IF Len(run) = 0 THEN s ELSE run[Len(run)],
         t |-> t + Len(run)]

-----------------------------------------------------------------------------
(* Inputs of Initialize *)

NumToSampleValues == {1, 2}
NumSampledValues == {0, 2}

SizeArgs ==
    {<<d, n, s>> : d \in 1..MaxDim, n \in NumToSampleValues, s \in NumSampledValues}
    \cup {<<3, 2, 5>>}

TotalDraws(d, n, s) == d * n + d * s + s + d

NoCall == [args |-> <<-1, -1, -1>>, gen |-> "none", resized |-> FALSE,
           lens_before |-> <<0, 0, 0, 0>>,
           engine_before |-> 0, t_before |-> 0, t_after |-> 0,
           own_before |-> 0, supplied_before |-> 0]

SuppliedSeeds == {0, kDefaultSeed}

\* MockExpectedImprovementEnvironment()
InitEnv ==
    /\ dim = -1
    /\ num_to_sample = -1
    /\ num_sampled = -1
    /\ points_to_sample_ = NewVector(DefaultPointsCapacity)
    /\ points_sampled_ = NewVector(DefaultPointsCapacity)
    /\ points_sampled_value_ = NewVector(DefaultValuesCapacity)
    /\ current_point_ = NewVector(DefaultPointCapacity)
    /\ uniform_generator_ = SeedEngine(kDefaultSeed)
    /\ \E seed \in SuppliedSeeds : supplied_generator = SeedEngine(seed)
    /\ hist = [calls |-> 0, clock |-> 0, own_draws |-> 0, supplied_draws |-> 0,
               supplied_seed |-> supplied_generator,
               last |-> NoCall, prev |-> NoCall]

\* A mutant of the size test: only a change of dim triggers the resize.
SizesChangedDimOnly(dim_in, num_to_sample_in, num_sampled_in) == dim_in # dim

\* dim_in != dim || num_to_sample_in != num_to_sample || num_sampled_in != num_sampled
SizesChanged(dim_in, num_to_sample_in, num_sampled_in) ==
    dim_in # dim \/ num_to_sample_in # num_to_sample \/ num_sampled_in # num_sampled

\* A mutant of the refill: current_point is drawn before points_sampled_value.
RefillPointFirst(b1, b2, b3, b4, d, n, s, g, e0, t0) ==
    LET f1 == FillLoop(b1, d * n, g, e0, t0)
        f2 == FillLoop(b2, d * s, g, f1.s, f1.t)
        f4 == FillLoop(b4, d, g, f2.s, f2.t)
        f3 == FillLoop(b3, s, g, f4.s, f4.t)
    IN  [points_to_sample |-> f1.buf, points_sampled |-> f2.buf,
         points_sampled_value |-> f3.buf, current_point |-> f4.buf,
         s |-> f3.s, t |-> f3.t]

\* The four fill loops of Initialize, in program order; d, n, s are the fields
\* dim, num_to_sample, num_sampled, e0 the engine state and t0 the draw clock
\* before the first loop.
Refill(b1, b2, b3, b4, d, n, s, g, e0, t0) ==
    LET f1 == FillLoop(b1, d * n, g, e0, t0)
        f2 == FillLoop(b2, d * s, g, f1.s, f1.t)
        f3 == FillLoop(b3, s, g, f2.s, f2.t)
        f4 == FillLoop(b4, d, g, f3.s, f3.t)
    IN  [points_to_sample |-> f1.buf, points_sampled |-> f2.buf,
         points_sampled_value |-> f3.buf, current_point |-> f4.buf,
         s |-> f4.s, t |-> f4.t]

\* Initialize(dim_in, num_to_sample_in, num_sampled_in, uniform_generator)
Initialize(dim_in, num_to_sample_in, num_sampled_in, g) ==
    LET changed == SizesChanged(dim_in, num_to_sample_in, num_sampled_in)
        d  == IF changed THEN dim_in ELSE dim
        n  == IF changed THEN num_to_sample_in ELSE num_to_sample
        s  == IF changed THEN num_sampled_in ELSE num_sampled
        b1 == IF changed THEN resize(points_to_sample_, n * d) ELSE points_to_sample_
        b2 == IF changed THEN resize(points_sampled_, s * d) ELSE points_sampled_
        b3 == IF changed THEN resize(points_sampled_value_, s) ELSE points_sampled_value_
        b4 == IF changed THEN resize(current_point_, d) ELSE current_point_
        e0 == EngineOf(g, uniform_generator_, supplied_generator)
        r  == Refill(b1, b2, b3, b4, d, n, s, g, e0, hist.clock)
        draws == TotalDraws(dim_in, num_to_sample_in, num_sampled_in)
    IN  /\ hist.calls < MaxCalls
        /\ dim' = d
        /\ num_to_sample' = n
        /\ num_sampled' = s
        /\ points_to_sample_' = r.points_to_sample
        /\ points_sampled_' = r.points_sampled
        /\ points_sampled_value_' = r.points_sampled_value
        /\ current_point_' = r.current_point
        /\ uniform_generator_' = IF g = "own" THEN r.s ELSE uniform_generator_
        /\ supplied_generator' = IF g = "own" THEN supplied_generator ELSE r.s
        /\ hist' = [calls |-> hist.calls + 1,
                    clock |-> r.t,
                    own_draws |-> hist.own_draws + (IF g = "own" THEN draws ELSE 0),
                    supplied_draws |->
                        hist.supplied_draws + (IF g = "own" THEN 0 ELSE draws),
                    supplied_seed |-> hist.supplied_seed,
                    last |-> [args |-> <<dim_in, num_to_sample_in, num_sampled_in>>,
                              gen |-> g, resized |-> changed,
                              lens_before |-> <<Len(points_to_sample_),
                                                Len(points_sampled_),
                                                Len(points_sampled_value_),
                                                Len(current_point_)>>,
                              engine_before |-> e0,
                              t_before |-> hist.clock, t_after |-> r.t,
                              own_before |-> uniform_generator_,
                              supplied_before |-> supplied_generator],
                    prev |-> hist.last]
        /\ UNCHANGED ping_vars

\* Initialize(dim_in, num_to_sample_in, num_sampled_in): the fixture's own generator
InitializeOwn ==
    \E a \in SizeArgs : Initialize(a[1], a[2], a[3], "own")

\* Initialize(dim_in, num_to_sample_in, num_sampled_in, &generator of the caller)
InitializeSupplied ==
    \E a \in SizeArgs : Initialize(a[1], a[2], a[3], "supplied")

-----------------------------------------------------------------------------
(* PingableMatrixInputVectorOutputInterface and two implementers of it.     *)
(* All reals of a ping run are integers: multiples of one fixed-point unit. *)

Abs(x) == IF x < 0 THEN -x ELSE x

Pow(b, n) ==
    LET p[k \in 0..n] == IF k = 0 THEN 1 ELSE b * p[k - 1]
    IN  IF n <= 0 THEN 1 ELSE p[n]

Coords(e) == (1..e.num_rows) \X (1..e.num_cols)

Entries(e) == (1..e.num_rows) \X (1..e.num_cols) \X (1..e.num_outputs)

\* GetGradientsSize(): num_rows*num_cols*GetOutputSize()
GetGradientsSize(e) == e.num_rows * e.num_cols * e.num_outputs

\* The n-th coordinate (row, column) of a matrix with the shape of e.
CoordAt(e, n) == <<((n - 1) \div e.num_cols) + 1, ((n - 1) % e.num_cols) + 1>>

\* The position of entry (d, i, k) in the gradient tensor.
FlatIndex(e, d, i, k) == ((d - 1) * e.num_cols + (i - 1)) * e.num_outputs + (k - 1)

Square(x) == x * x
Cube(x) == x * x * x

Term(kind, x) ==
    IF kind = "abs" THEN Abs(x) ELSE IF kind = "square" THEN Square(x) ELSE Cube(x)

\* Sum of Term(kind, m[c]) over all coordinates c of m.
SumOver(e, m, kind) ==
    LET n == e.num_rows * e.num_cols
        acc[j \in 0..n] ==
            IF j = 0 THEN 0 ELSE acc[j - 1] + Term(kind, m[CoordAt(e, j)])
    IN  acc[n]

\* EvaluateFunction(input_matrix, function_values): all outputs of f at m.
\* "SumSquares" is f_k(X) = k * sum X^2, "SumCubes" is f_k(X) = k * sum X^3.
EvaluateFunction(e, m) ==
    [k \in 1..e.num_outputs |->
        IF e.fn = "SumSquares" THEN k * SumOver(e, m, "square")
        ELSE k * SumOver(e, m, "cube")]

\* What the analytic gradient code of a "flawed" implementer gets wrong, entry
\* by entry: a term dropped (the gradient reads 0) or a constant offset.
FlawSeq == << [drop |-> FALSE, off |-> 0],
              [drop |-> FALSE, off |-> -2],
              [drop |-> FALSE, off |-> 10],
              [drop |-> TRUE,  off |-> 0],
              [drop |-> FALSE, off |-> -20] >>

FlawAt(e, d, i, k) == FlawSeq[((FlatIndex(e, d, i, k) + e.rot) % Len(FlawSeq)) + 1]

\* The analytic gradient the implementer computes for input m: the "zero"
\* implementer returns the constant 0; the "flawed" one differentiates
\* k * sum X^3 up to its flaw at the entry.
AnalyticGradient(e, m, d, i, k) ==
    IF e.gradient = "zero" THEN 0
    ELSE IF FlawAt(e, d, i, k).drop THEN 0
    ELSE 3 * k * Square(m[<<d, i>>]) + FlawAt(e, d, i, k).off

Empty == [state |-> "Empty", input |-> <<>>]

\* A mutant of the store: the input matrix is not saved.
EvaluateAndStoreNothing(input_matrix) == Empty

\* EvaluateAndStoreAnalyticGradient(input_matrix, nullptr): "the only thing
\* that needs to be saved is the contents of input_matrix for later access".
EvaluateAndStoreAnalyticGradient(input_matrix) ==
    [state |-> "Evaluated", input |-> input_matrix]

\* GetAnalyticGradient(row_index, column_index, output_index) in state st:
\* the gradient at the input stored by EvaluateAndStoreAnalyticGradient; with
\* nothing stored the call reads whatever the implementer's storage holds.
GetAnalyticGradient(e, st, d, i, k) ==
    IF st.state = "Empty" THEN e.uninit
    ELSE AnalyticGradient(e, st.input, d, i, k)

-----------------------------------------------------------------------------
(* PingDerivative *)

\* input_output_ratio = 10^-InputOutputRatioExp; rate tolerances are counted
\* in halves (1 is 0.5, 4 is 2.0).
InputOutputRatioExp == 12
SmallError == 10

\* X with coordinate c moved by h
Perturbed(m, c, h) == [m EXCEPT ![c] = @ + h]

\* The least integer c with c*c >= n.
CeilSqrt(n, bound) == CHOOSE c \in 0..bound : c * c >= n /\ (c = 0 \/ (c - 1) * (c - 1) < n)

\* ceil(n / 10^e)
CeilDivPow10(n, e) ==
    LET q[k \in 0..e] == IF k = 0 THEN n ELSE (q[k - 1] + 9) \div 10
    IN  q[e]

\* A mutant of the gate: the scale reference is forgotten, nothing is skipped.
SkipsNothing(e, m, g) == FALSE

\* |analytic gradient| / ||input|| < input_output_ratio, in integers:
\* |g| * 10^E < sqrt(N)  <=>  |g| < ceil(ceil(sqrt(N)) / 10^E).
SkipIllScaled(e, m, g) ==
    LET normsq == SumOver(e, m, "square")
        norm1  == SumOver(e, m, "abs")
    IN  Abs(g) < CeilDivPow10(CeilSqrt(normsq, norm1), InputOutputRatioExp)

\* epsilon[0]/epsilon[1] = s*s; the step pairs of the model have s = 10 or 2.
RootOfStepRatio(eps) == CHOOSE s \in 1..eps[1] : s * s * eps[2] = eps[1]

\* | log(e1/e2) / log(h1/h2) - 2 | <= tol/2, in integers.  With h1/h2 = s^2
\* the rate is log_s(e1/e2)/2, so the test is s^(4-tol) <= e1/e2 <= s^(4+tol).
\* A zero error makes the rate infinite or NaN, which is within no tolerance.
RateWithin(e1, e2, tol, s) ==
    /\ e1 > 0
    /\ e2 > 0
    /\ IF tol <= 4 THEN e1 \div Pow(s, 4 - tol) >= e2
                   ELSE e1 * Pow(s, tol - 4) >= e2
    /\ (e1 + Pow(s, 4 + tol) - 1) \div Pow(s, 4 + tol) <= e2

\* A mutant of the verdict: a relaxed pass does not ask for a small e(h2).
VerdictRelaxedAlways(skip, fine, relaxed, small) ==
    IF skip THEN "skip-ill-scaled"
    ELSE IF fine THEN "pass-fine"
    ELSE IF relaxed THEN "pass-relaxed"
    ELSE "fail"

\* The verdict of one entry.
Verdict(skip, fine, relaxed, small) ==
    IF skip THEN "skip-ill-scaled"
    ELSE IF fine THEN "pass-fine"
    ELSE IF relaxed /\ small THEN "pass-relaxed"
    ELSE "fail"

\* A mutant of the count: every entry that did not pass is counted.
CountNotPassed(total, verdict) ==
    IF verdict \in {"fail", "skip-ill-scaled"} THEN total + 1 ELSE total

\* total_errors after an entry with this verdict
CountAfter(total, verdict) == IF verdict = "fail" THEN total + 1 ELSE total

\* A mutant of the loop: the run stops at the first failure.
StopsAtFirstFailure(verdict, last) == last \/ verdict = "fail"

\* Whether the run ends after the entry just judged.
RunEnds(verdict, last) == last

Pending == [verdict |-> "pending", analytic |-> 0, fd1 |-> 0, fd2 |-> 0, state |-> Empty]

Shapes ==
    {[num_rows |-> r, num_cols |-> c, num_outputs |-> o] :
        r \in 1..MaxRows, c \in 1..MaxCols, o \in 1..MaxOutputs}

UninitValues == {0, 7}

Implementers ==
    {[fn |-> "SumSquares", gradient |-> "zero", rot |-> 0, uninit |-> u,
      num_rows |-> sh.num_rows, num_cols |-> sh.num_cols, num_outputs |-> 1] :
        sh \in Shapes, u \in UninitValues}
    \cup
    {[fn |-> "SumCubes", gradient |-> "flawed", rot |-> p, uninit |-> u,
      num_rows |-> sh.num_rows, num_cols |-> sh.num_cols,
      num_outputs |-> sh.num_outputs] :
        sh \in Shapes, p \in 0..(Len(FlawSeq) - 1), u \in UninitValues}

\* Coordinates are nonzero ("magnitudes around 1.0: say [1.0e-3, 1.0e1]").
CoordValues == {-10, 10, 20}

PointChoices(e) ==
    {[c \in Coords(e) |-> v] : v \in CoordValues}
    \cup {[c \in Coords(e) |-> IF (c[1] + c[2]) % 2 = 0 THEN -10 ELSE 20]}

EpsilonChoices == {<<100, 1>>, <<4, 1>>}

InitPingWith(e, m, eps, relaxed) ==
    /\ evaluator = e
    /\ evaluator_state = Empty
    /\ points = m
    /\ epsilon = eps
    /\ rate_tolerance_fine = 1
    /\ rate_tolerance_relaxed = relaxed
    /\ pc = "idle"
    /\ row = 1
    /\ col = 1
    /\ out = 1
    /\ grad_fd = <<>>
    /\ total_errors = 0
    /\ returned = -1
    /\ judged = [en \in Entries(e) |-> Pending]
    /\ eval_inputs = {}
    /\ caller_arg = Empty

InitPing ==
    \E e \in Implementers : \E m \in PointChoices(e) :
    \E eps \in EpsilonChoices : \E relaxed \in {2, 4} :
        /\ (e.uninit = 7 => (m[<<1, 1>>] = 20 /\ eps[1] = 4))
        /\ InitPingWith(e, m, eps, relaxed)

\* The caller prepares the implementer: EvaluateAndStoreAnalyticGradient is
\* not const, and PingDerivative holds the implementer by const reference.
CallerStores ==
    /\ pc = "idle"
    /\ \E m \in {points, Perturbed(points, <<1, 1>>, epsilon[1])} :
          /\ evaluator_state' = EvaluateAndStoreAnalyticGradient(m)
          /\ caller_arg' = [state |-> "Evaluated", input |-> m]
    /\ UNCHANGED <<evaluator, points, epsilon, rate_tolerance_fine,
                   rate_tolerance_relaxed, pc, row, col, out, grad_fd,
                   total_errors, returned, judged, eval_inputs>>
    /\ UNCHANGED env_vars

\* PingDerivative is entered.
StartPing ==
    /\ pc = "idle"
    /\ pc' = "perturb"
    /\ row' = 1 /\ col' = 1 /\ out' = 1
    /\ total_errors' = 0
    /\ UNCHANGED <<evaluator, evaluator_state, points, epsilon, rate_tolerance_fine,
                   rate_tolerance_relaxed, grad_fd, returned, judged,
                   eval_inputs, caller_arg>>
    /\ UNCHANGED env_vars

\* For both step sizes: X is moved by +h and -h along (row, col), f is
\* evaluated at both, and the central differences of all outputs are formed.
Perturb ==
    /\ pc = "perturb"
    /\ LET c  == <<row, col>>
           xp == [j \in 1..2 |-> Perturbed(points, c, epsilon[j])]
           xm == [j \in 1..2 |-> Perturbed(points, c, -epsilon[j])]
       IN  /\ grad_fd' =
                 [j \in 1..2 |->
                    [k \in 1..evaluator.num_outputs |->
                        (EvaluateFunction(evaluator, xp[j])[k]
                           - EvaluateFunction(evaluator, xm[j])[k])
                        \div (2 * epsilon[j])]]
           /\ eval_inputs' = {xp[1], xm[1], xp[2], xm[2]}
    /\ pc' = "judge"
    /\ out' = 1
    /\ UNCHANGED <<evaluator, evaluator_state, points, epsilon, rate_tolerance_fine,
                   rate_tolerance_relaxed, row, col, total_errors, returned,
                   judged, caller_arg>>
    /\ UNCHANGED env_vars

\* Entry (row, col, out) is judged and the position moves on.
Judge ==
    /\ pc = "judge"
    /\ LET g  == GetAnalyticGradient(evaluator, evaluator_state, row, col, out)
           e1 == Abs(grad_fd[1][out] - g)
           e2 == Abs(grad_fd[2][out] - g)
           s  == RootOfStepRatio(epsilon)
           v  == Verdict(SkipIllScaled(evaluator, points, g),
                         RateWithin(e1, e2, rate_tolerance_fine, s),
                         RateWithin(e1, e2, rate_tolerance_relaxed, s),
                         e2 <= SmallError)
           last == /\ out = evaluator.num_outputs
                   /\ col = evaluator.num_cols
                   /\ row = evaluator.num_rows
       IN  /\ judged' = [judged EXCEPT ![<<row, col, out>>] =
                            [verdict |-> v, analytic |-> g,
                             fd1 |-> grad_fd[1][out], fd2 |-> grad_fd[2][out],
                             state |-> evaluator_state]]
           /\ total_errors' = CountAfter(total_errors, v)
           /\ IF RunEnds(v, last)
              THEN /\ pc' = "done"
                   /\ returned' = total_errors'
                   /\ UNCHANGED <<row, col, out>>
              ELSE /\ returned' = returned
                   /\ IF out < evaluator.num_outputs
                      THEN pc' = "judge" /\ out' = out + 1 /\ UNCHANGED <<row, col>>
                      ELSE /\ pc' = "perturb"
                           /\ out' = 1
                           /\ IF col < evaluator.num_cols
                              THEN col' = col + 1 /\ row' = row
                              ELSE col' = 1 /\ row' = row + 1
    /\ UNCHANGED <<evaluator, evaluator_state, points, epsilon, rate_tolerance_fine,
                   rate_tolerance_relaxed, grad_fd, eval_inputs, caller_arg>>
    /\ UNCHANGED env_vars

-----------------------------------------------------------------------------
(* Specifications *)

\* The fixture alone; no ping run is under way.
InitPingIdle ==
    InitPingWith([fn |-> "SumSquares", gradient |-> "zero", rot |-> 0, uninit |-> 0,
                  num_rows |-> 1, num_cols |-> 1, num_outputs |-> 1],
                 [c \in {<<1, 1>>} |-> 10], <<100, 1>>, 4)

Init == InitEnv /\ InitPingIdle

Next == InitializeOwn \/ InitializeSupplied

Spec == Init /\ [][Next]_vars

\* Ping runs; the fixture stays as constructed.
PingInit == InitEnv /\ supplied_generator = SeedEngine(0) /\ InitPing

PingNext == CallerStores \/ StartPing \/ Perturb \/ Judge

PingSpec == PingInit /\ [][PingNext]_vars

\* PingDerivative is synchronous straight-line code: once entered it runs on.
PingFairSpec == PingSpec /\ WF_vars(Perturb \/ Judge)

-----------------------------------------------------------------------------
(* Properties of the fixture *)

Lens == <<Len(points_to_sample_), Len(points_sampled_),
          Len(points_sampled_value_), Len(current_point_)>>

ImpliedLens(a) == <<a[1] * a[2], a[1] * a[3], a[3], a[1]>>

\* The four buffers in the order in which Initialize fills them.
AllScalars ==
    points_to_sample_ \o points_sampled_ \o points_sampled_value_ \o current_point_

Initialized == hist.calls >= 1

\* C3: after any sequence of Initialize calls the four buffers have exactly the
\* sizes implied by the most recent call's arguments (dim*num_to_sample,
\* dim*num_sampled, num_sampled, dim) and the three size fields equal them.
C3_SizesFollowLastCall ==
    Initialized =>
        /\ Lens = ImpliedLens(hist.last.args)
        /\ <<dim, num_to_sample, num_sampled>> = hist.last.args

\* A second call that changes the sizes: one buffer shrinks, another grows.
C3_Witness ==
    /\ hist.calls = 2
    /\ hist.last.resized
    /\ hist.prev.resized
    /\ hist.last.args # hist.prev.args
    /\ Len(points_sampled_) < hist.last.lens_before[2]
    /\ Len(points_to_sample_) > hist.last.lens_before[1]

\* C4: a second Initialize with the same size arguments performs no resize and
\* leaves the four sizes as they were, yet every element of the four buffers
\* holds a draw made after all draws of the first call.
C4_SameSizesRedrawn ==
    (hist.calls >= 2 /\ hist.last.args = hist.prev.args) =>
        /\ ~hist.last.resized
        /\ Lens = hist.last.lens_before
        /\ Lens = ImpliedLens(hist.last.args)
        /\ \A j \in 1..Len(AllScalars) :
              /\ AllScalars[j].gen \in Generators
              /\ AllScalars[j].t > hist.prev.t_after

C4_Witness ==
    /\ hist.calls = 2
    /\ hist.last.args = <<3, 2, 5>>
    /\ hist.prev.args = <<3, 2, 5>>
    /\ Lens = <<6, 15, 5, 3>>
    /\ hist.last.gen = "own"
    /\ hist.prev.gen = "own"

\* C7: after an Initialize call every element of the four buffers lies in
\* [range_min, range_max] = [-5, 5].
C7_ValuesInRange ==
    Initialized =>
        \A j \in 1..Len(AllScalars) :
            /\ AllScalars[j].val >= range_min
            /\ AllScalars[j].val <= range_max

C7_Witness ==
    /\ hist.calls = 2
    /\ \E j \in 1..Len(AllScalars) : AllScalars[j].val = range_min
    /\ \E j \in 1..Len(AllScalars) : AllScalars[j].val = range_max

\* C8: a call advances the generator it uses by exactly
\* dim*num_to_sample + dim*num_sampled + num_sampled + dim draws, and the j-th
\* draw of the call is stored at position j of the concatenation
\* points_to_sample, points_sampled, points_sampled_value, current_point,
\* whether or not the call resized.
C8_DrawOrder ==
    Initialized =>
        LET a == hist.last.args
            N == TotalDraws(a[1], a[2], a[3])
            now == EngineOf(hist.last.gen, uniform_generator_, supplied_generator)
        IN  /\ Len(AllScalars) = N
            /\ hist.last.t_after = hist.last.t_before + N
            /\ now = EngineNth(hist.last.engine_before, N)
            /\ \A j \in 1..N :
                  /\ AllScalars[j].t = hist.last.t_before + j
                  /\ AllScalars[j].gen = hist.last.gen
                  /\ AllScalars[j].val =
                        uniform_double_(EngineNth(hist.last.engine_before, j))

C8_Witness ==
    /\ hist.calls = 2
    /\ hist.prev.resized
    /\ ~hist.last.resized
    /\ hist.last.args[3] > 0
    /\ points_sampled_value_[1].t = hist.last.t_before + Len(points_to_sample_)
                                      + Len(points_sampled_) + 1

\* C10: every scalar of a call comes from one generator; the three-argument
\* form draws only from the fixture's own generator (seeded with 314), the
\* four-argument form only from the supplied one, so the own generator always
\* stands where its seed and the draws of the three-argument calls put it.
C10_OneGeneratorPerCall ==
    /\ uniform_generator_ = EngineNth(SeedEngine(kDefaultSeed), hist.own_draws)
    /\ supplied_generator = EngineNth(hist.supplied_seed, hist.supplied_draws)
    /\ Initialized =>
          /\ \A j \in 1..Len(AllScalars) : AllScalars[j].gen = hist.last.gen
          /\ hist.last.gen = "supplied" => uniform_generator_ = hist.last.own_before
          /\ hist.last.gen = "own" => supplied_generator = hist.last.supplied_before
          /\ hist.last.gen = "own" =>
                hist.last.engine_before =
                    EngineNth(SeedEngine(kDefaultSeed),
                              hist.own_draws - Len(AllScalars))

C10_Witness ==
    /\ hist.calls = 2
    /\ hist.prev.gen = "supplied"
    /\ hist.last.gen = "own"
    /\ hist.own_draws = Len(AllScalars)
    /\ points_to_sample_[1].val =
          uniform_double_(EngineStep(SeedEngine(kDefaultSeed)))

-----------------------------------------------------------------------------
(* Properties of PingDerivative *)

Judged(en) == judged[en].verdict # "pending"

JudgedEntries == {en \in Entries(evaluator) : Judged(en)}

AllJudged == JudgedEntries = Entries(evaluator)

Failures == {en \in Entries(evaluator) : judged[en].verdict = "fail"}

StoredAtPoints == [state |-> "Evaluated", input |-> points]

\* The three facts about a judged entry, from what was read and computed.
ErrorAt(en, j) ==
    Abs((IF j = 1 THEN judged[en].fd1 ELSE judged[en].fd2) - judged[en].analytic)

FineAt(en) ==
    RateWithin(ErrorAt(en, 1), ErrorAt(en, 2), rate_tolerance_fine,
               RootOfStepRatio(epsilon))

RelaxedAt(en) ==
    RateWithin(ErrorAt(en, 1), ErrorAt(en, 2), rate_tolerance_relaxed,
               RootOfStepRatio(epsilon))

SmallAt(en) == ErrorAt(en, 2) <= SmallError

\* C1: the integer PingDerivative returns is exactly the number of entries
\* whose verdict is fail; passes and skipped entries add nothing, whatever
\* the finite-difference estimates of a skipped entry are; so the result lies
\* between 0 and num_rows*num_cols*num_outputs.
C1_CountIsFailures ==
    /\ total_errors = Cardinality(Failures)
    /\ pc = "done" =>
          /\ returned = Cardinality(Failures)
          /\ returned >= 0
          /\ returned <= evaluator.num_rows * evaluator.num_cols * evaluator.num_outputs

C1_Witness ==
    /\ pc = "done"
    /\ returned = 1
    /\ \E en \in Entries(evaluator) :
          /\ judged[en].verdict = "skip-ill-scaled"
          /\ judged[en].fd1 # judged[en].analytic
          /\ judged[en].fd2 # judged[en].analytic
    /\ \E en \in Entries(evaluator) : judged[en].verdict = "pass-fine"
    /\ \E en \in Entries(evaluator) : judged[en].verdict = "pass-relaxed"

\* The run of claim C2: f = sum X^2 with the analytic gradient constant 0,
\* epsilon = [1e-2, 1e-4], rate_tolerance_fine = 0.5, rate_tolerance_relaxed
\* = 2.0, input_output_ratio = 1e-12, the implementer prepared by its caller.
ZeroGradientRun ==
    /\ pc = "done"
    /\ evaluator.fn = "SumSquares"
    /\ evaluator.gradient = "zero"
    /\ epsilon = <<100, 1>>
    /\ rate_tolerance_fine = 1
    /\ rate_tolerance_relaxed = 4
    /\ evaluator_state.state = "Evaluated"

\* C2 as stated: with the constant-0 gradient every entry at a nonzero
\* coordinate of X is counted as a failure.
C2_Original ==
    ZeroGradientRun =>
        returned = Cardinality({c \in Coords(evaluator) : points[c] # 0})

\* C2 as amended: with the constant-0 gradient the run returns 0, because the
\* input_output_ratio gate tests the analytic gradient (0), not the true
\* gradient, and so skips every entry.
C2_ZeroGradientAllSkipped ==
    ZeroGradientRun =>
        /\ returned = 0
        /\ \A en \in Entries(evaluator) : judged[en].verdict = "skip-ill-scaled"

C2_Witness ==
    /\ ZeroGradientRun
    /\ evaluator.num_rows = 2
    /\ evaluator.num_cols = 2
    /\ evaluator_state = StoredAtPoints
    /\ \A en \in Entries(evaluator) :
          /\ judged[en].fd1 = 2 * points[<<en[1], en[2]>>]
          /\ judged[en].fd2 = 2 * points[<<en[1], en[2]>>]
          /\ judged[en].fd1 # 0

\* C5 as stated: every GetAnalyticGradient call of a run is served in state
\* Evaluated(X), X the matrix being pinged.
C5_Original ==
    \A en \in JudgedEntries : judged[en].state = StoredAtPoints

\* C5 as amended: PingDerivative never stores anything in the implementer; the
\* implementer stays in the state its caller left it in, every
\* GetAnalyticGradient call is served in that state, and it is Evaluated(X)
\* with the gradient taken at X exactly when the caller stored X before the
\* run; the matrices passed to EvaluateFunction are X moved along one
\* coordinate by +-h and never reach the stored state.
C5_StateIsTheCallers ==
    /\ evaluator_state = caller_arg
    /\ \A en \in JudgedEntries :
          /\ judged[en].state = caller_arg
          /\ caller_arg = StoredAtPoints =>
                judged[en].analytic =
                    AnalyticGradient(evaluator, points, en[1], en[2], en[3])
    /\ \A m \in eval_inputs :
          /\ m # points
          /\ \E c \in Coords(evaluator) : \E j \in 1..2 :
                m \in {Perturbed(points, c, epsilon[j]),
                       Perturbed(points, c, -epsilon[j])}
          /\ (caller_arg = StoredAtPoints => evaluator_state.input # m)

C5_Witness ==
    /\ pc = "done"
    /\ caller_arg = StoredAtPoints
    /\ evaluator.gradient = "flawed"
    /\ Cardinality(JudgedEntries) >= 2
    /\ eval_inputs # {}

\* C6: once entered, a ping run always reaches its end, with a verdict for
\* every (row, column, output) entry and the count as its result; a failing
\* entry does not stop it.
C6_RunsToCompletion ==
    (pc # "idle") ~> (pc = "done" /\ AllJudged /\ returned = total_errors)

C6_Witness ==
    /\ pc = "done"
    /\ AllJudged
    /\ judged[<<1, 1, 1>>].verdict = "fail"
    /\ Cardinality(JudgedEntries) >= 4
    /\ \E en \in Entries(evaluator) : judged[en].verdict = "pass-fine"

\* C9: the verdict of an entry that is not skipped depends on three facts
\* only: pass-fine iff the rate deviation is within rate_tolerance_fine;
\* pass-relaxed iff it is not, but is within rate_tolerance_relaxed, and e(h2)
\* is small; fail in every other case.
C9_VerdictFromThreeFacts ==
    \A en \in JudgedEntries :
        judged[en].verdict # "skip-ill-scaled" =>
            /\ judged[en].verdict \in {"pass-fine", "pass-relaxed", "fail"}
            /\ judged[en].verdict = "pass-fine" <=> FineAt(en)
            /\ judged[en].verdict = "pass-relaxed" <=>
                  (~FineAt(en) /\ RelaxedAt(en) /\ SmallAt(en))
            /\ judged[en].verdict = "fail" <=>
                  (~FineAt(en) /\ ~(RelaxedAt(en) /\ SmallAt(en)))

C9_Witness ==
    /\ pc = "done"
    /\ \E en \in Entries(evaluator) :
          judged[en].verdict = "fail" /\ RelaxedAt(en) /\ ~SmallAt(en)
    /\ \E en \in Entries(evaluator) :
          judged[en].verdict = "fail" /\ ~RelaxedAt(en) /\ SmallAt(en)
    /\ \E en \in Entries(evaluator) : judged[en].verdict = "pass-relaxed"
    /\ \E en \in Entries(evaluator) : judged[en].verdict = "pass-fine"

====
